---- MODULE Spec2Model ----
(***************************************************************************)
(* Model of src/app_eda.py: the population pipeline of the EDA page.       *)
(*                                                                         *)
(*   load_population_df   CSV -> cleaned frame (three steps)               *)
(*   predict_pop_2035     national frame -> forecast for 2035              *)
(*   EDA.__init__         the tabs National Trend, Regional delta,         *)
(*                        Top delta records, Heatmap / Area, in order      *)
(*                                                                         *)
(* A frame is a sequence of rows (records); the position of a row is its   *)
(* pandas index position.  The source's Korean column names and region     *)
(* codes are written in Latin letters: region, year, population, births,   *)
(* deaths; "jeonguk" is the national code and "sejong" the region of the   *)
(* placeholder substitution.  A float cell is Num(..) or NaN, a string     *)
(* cell is Str(..); a raw CSV token is a sequence of characters.           *)
(* Calls that only draw (matplotlib, seaborn, streamlit) are not modelled.  *)
(***************************************************************************)
EXTENDS Integers, Sequences, FiniteSets, TLC

VARIABLES pc, raw, df, pass, first, nat_df, pop2035, delta, top100, pivot, nat_area

vars == <<pc, raw, df, pass, first, nat_df, pop2035, delta, top100, pivot, nat_area>>

-----------------------------------------------------------------------------
(* Bounds of the input families and program constants *)

MaxPop == 1

MaxBirths == 1

MaxDeaths == 1

MaxK == 3

MaxNat == 3

TargetYear == 2035

Lookback == 4

TailLen == 3

TopN == 100

HeadTail == 3

-----------------------------------------------------------------------------
(* Region codes and labels *)

NationalCode == "jeonguk"

SejongCode == "sejong"

\* The keys of REGION_KR2EN in the order Python sorts the Korean strings
\* (code point order), which is the order of a sorted pandas index.
RegionOrder ==
  << "gangwon", "gyeonggi", "gyeongnam", "gyeongbuk", "gwangju", "daegu",
     "daejeon", "busan", "seoul", "sejong", "ulsan", "incheon", "jeonguk",
     "jeonnam", "jeonbuk", "jeju", "chungnam", "chungbuk" >>

REGION_KR2EN ==
  [ seoul |-> "Seoul", busan |-> "Busan", daegu |-> "Daegu",
    incheon |-> "Incheon", gwangju |-> "Gwangju", daejeon |-> "Daejeon",
    ulsan |-> "Ulsan", sejong |-> "Sejong", gyeonggi |-> "Gyeonggi",
    gangwon |-> "Gangwon", chungbuk |-> "Chungbuk", chungnam |-> "Chungnam",
    jeonbuk |-> "Jeonbuk", jeonnam |-> "Jeonnam", gyeongbuk |-> "Gyeongbuk",
    gyeongnam |-> "Gyeongnam", jeju |-> "Jeju", jeonguk |-> "National" ]

RegionRank(r) == CHOOSE i \in 1..Len(RegionOrder) : RegionOrder[i] = r

-----------------------------------------------------------------------------
(* Cells *)

NaN == [k |-> "nan"]

\* A float: sign, whole part, and whether a non-zero fractional part follows.
Num(neg, whole, frac) == [k |-> "num", neg |-> neg, whole |-> whole, frac |-> frac]

Str(s) == [k |-> "str", s |-> s]

IntNum(n) == IF n < 0 THEN Num(TRUE, -n, FALSE) ELSE Num(FALSE, n, FALSE)

Digits == {"0", "1", "2", "3", "4", "5", "6", "7", "8", "9"}

DigitVal(c) ==
  CASE c = "0" -> 0 [] c = "1" -> 1 [] c = "2" -> 2 [] c = "3" -> 3
    [] c = "4" -> 4 [] c = "5" -> 5 [] c = "6" -> 6 [] c = "7" -> 7
    [] c = "8" -> 8 [] c = "9" -> 9

DigitChar(d) ==
  CASE d = 0 -> "0" [] d = 1 -> "1" [] d = 2 -> "2" [] d = 3 -> "3"
    [] d = 4 -> "4" [] d = 5 -> "5" [] d = 6 -> "6" [] d = 7 -> "7"
    [] d = 8 -> "8" [] d = 9 -> "9"

RECURSIVE DigitsToNat(_)
DigitsToNat(s) ==
  IF s = << >> THEN 0
  ELSE 10 * DigitsToNat(SubSeq(s, 1, Len(s) - 1)) + DigitVal(s[Len(s)])

RECURSIVE NatToDigits(_)
NatToDigits(n) ==
  IF n < 10 THEN << DigitChar(n) >>
  ELSE Append(NatToDigits(n \div 10), DigitChar(n % 10))

\* str(int): how an integer cell is written to CSV text.
FormatInt(n) == IF n < 0 THEN << "-" >> \o NatToDigits(-n) ELSE NatToDigits(n)

AllDigits(s) == \A i \in 1..Len(s) : s[i] \in Digits

\* The float a numeric token denotes, NaN for any other token: optional "-",
\* digits, optional "." and digits, at least one digit.
ParseNumber(tok) ==
  LET neg  == Len(tok) > 0 /\ tok[1] = "-"
      body == IF neg THEN Tail(tok) ELSE tok
      dots == {i \in 1..Len(body) : body[i] = "."}
      dot  == IF dots = {} THEN Len(body) + 1 ELSE CHOOSE i \in dots : TRUE
      wh   == SubSeq(body, 1, dot - 1)
      fr   == SubSeq(body, dot + 1, Len(body))
  IN IF /\ Cardinality(dots) <= 1
        /\ AllDigits(wh) /\ AllDigits(fr)
        /\ Len(wh) + Len(fr) >= 1
     THEN Num(neg, DigitsToNat(wh), DigitsToNat(fr) > 0)
     ELSE NaN

NumCols == {"population", "births", "deaths"}

Col(frame, c) == [i \in 1..Len(frame) |-> frame[i][c]]

-----------------------------------------------------------------------------
(* load_population_df *)

\* pd.read_csv, one column: a column whose every token is a number or empty
\* is a numeric column (empty -> NaN); any other column keeps its strings
\* (empty -> NaN).
ReadColumn(toks) ==
  LET numeric == \A i \in DOMAIN toks : toks[i] = << >> \/ ParseNumber(toks[i]) # NaN
  IN [i \in DOMAIN toks |->
        IF toks[i] = << >> THEN NaN
        ELSE IF numeric THEN ParseNumber(toks[i]) ELSE Str(toks[i])]

ReadCsvFrame(table) ==
  LET p == ReadColumn(Col(table, "population"))
      b == ReadColumn(Col(table, "births"))
      d == ReadColumn(Col(table, "deaths"))
  IN [i \in 1..Len(table) |->
        [region |-> table[i].region, year |-> table[i].year,
         population |-> p[i], births |-> b[i], deaths |-> d[i]]]

\* .replace("-", 0): a cell that is exactly the string "-" becomes 0.
ReplaceDash(c) == IF c = Str(<< "-" >>) THEN IntNum(0) ELSE c

\* Faulty variant: the replacement applied without mask_sejong.
ReplaceSejongRowUnmasked(r) ==
  [r EXCEPT !.population = ReplaceDash(@), !.births = ReplaceDash(@),
            !.deaths = ReplaceDash(@)]

\* Step 1, one row: rows outside mask_sejong are not assigned.
ReplaceSejongRow(r) ==
  IF r.region = SejongCode
  THEN [r EXCEPT !.population = ReplaceDash(@), !.births = ReplaceDash(@),
                 !.deaths = ReplaceDash(@)]
  ELSE r

\* pd.to_numeric(errors="coerce") on one cell.
ToNumeric(c) == IF c.k = "str" THEN ParseNumber(c.s) ELSE c

\* Faulty variant: a missing value is filled with the sentinel -1.
FillNaMinusOne(c) == IF c = NaN THEN IntNum(-1) ELSE c

\* .fillna(0)
FillNa(c) == IF c = NaN THEN IntNum(0) ELSE c

\* .astype(int): truncation toward zero.
AsInt(c) == IF c.neg THEN -c.whole ELSE c.whole

CoerceCell(c) == AsInt(FillNa(ToNumeric(c)))

\* Step 2, one row.
CoerceRow(r) ==
  [r EXCEPT !.population = CoerceCell(@), !.births = CoerceCell(@),
            !.deaths = CoerceCell(@)]

\* Series.map(REGION_KR2EN): a key the dict lacks maps to a missing label.
NoLabel == "nan"

MapLabel(code) ==
  IF code \in DOMAIN REGION_KR2EN THEN REGION_KR2EN[code] ELSE NoLabel

\* Faulty variant: the mapped label also overwrites the region column.
AddRegionEnInPlace(r) ==
  [region |-> MapLabel(r.region), year |-> r.year,
   population |-> r.population, births |-> r.births, deaths |-> r.deaths,
   region_en |-> MapLabel(r.region)]

\* Step 3, one row: df["region_en"] = df[region].map(REGION_KR2EN).
AddRegionEnRow(r) ==
  [region |-> r.region, year |-> r.year,
   population |-> r.population, births |-> r.births, deaths |-> r.deaths,
   region_en |-> MapLabel(r.region)]

-----------------------------------------------------------------------------
(* Frame helpers *)

RECURSIVE SumSeq(_)
SumSeq(s) == IF s = << >> THEN 0 ELSE s[1] + SumSeq(Tail(s))

MaxOf(S) == CHOOSE m \in S : \A x \in S : x <= m

Min2(a, b) == IF a <= b THEN a ELSE b

\* head(n) and tail(n) of a sequence.
HeadN(s, n) == SubSeq(s, 1, Min2(n, Len(s)))

TailN(s, n) == SubSeq(s, Len(s) - Min2(n, Len(s)) + 1, Len(s))

\* Stable ascending sort of a sequence of [key, val] records.
InsertByKey(sorted, e) ==
  LET n == Cardinality({i \in 1..Len(sorted) : sorted[i].key <= e.key})
  IN SubSeq(sorted, 1, n) \o << e >> \o SubSeq(sorted, n + 1, Len(sorted))

RECURSIVE SortByKey(_)
SortByKey(s) ==
  IF s = << >> THEN << >>
  ELSE InsertByKey(SortByKey(SubSeq(s, 1, Len(s) - 1)), s[Len(s)])

Undecorate(s) == [i \in 1..Len(s) |-> s[i].val]

\* sort_values(year)
SortByYear(frame) ==
  Undecorate(SortByKey([i \in 1..Len(frame) |->
                          [key |-> frame[i].year, val |-> frame[i]]]))

\* sort_values([region, year])
SortByRegionYear(frame) ==
  Undecorate(SortByKey([i \in 1..Len(frame) |->
      [key |-> RegionRank(frame[i].region) * 10000 + frame[i].year,
       val |-> frame[i]]]))

WhereRegion(frame, code) == SelectSeq(frame, LAMBDA r : r.region = code)

WhereNotRegion(frame, code) == SelectSeq(frame, LAMBDA r : r.region # code)

WhereYear(frame, y) == SelectSeq(frame, LAMBDA r : r.year = y)

YearsOf(frame) == {frame[i].year : i \in 1..Len(frame)}

\* The outcome of a computation that may raise.
Unset == [st |-> "unset"]

Ret(v) == [st |-> "ok", v |-> v]

Raise(e) == [st |-> "raise", e |-> e]

-----------------------------------------------------------------------------
(* predict_pop_2035 *)

\* int(x / n) for n > 0: Python's int() of a float truncates toward zero.
TruncDiv(a, n) == IF a >= 0 THEN a \div n ELSE -((-a) \div n)

\* int(series.mean()): the mean of no rows is NaN, and int(NaN) raises.
IntMean(s) == TruncDiv(SumSeq(s), Len(s))

\* nat_df.iloc[-1]: the last row of the frame as it was given.
LastRow(nat) == nat[Len(nat)]

predict_pop_2035(nat) ==
  LET recent == TailN(SortByYear(nat), TailLen)
      diffs  == [i \in 1..Len(recent) |-> recent[i].births - recent[i].deaths]
  IN IF Len(nat) = 0 THEN Raise("ValueError")
     ELSE LET annual_delta == IntMean(diffs)
              yrs == TargetYear - MaxOf(YearsOf(recent))
          IN Ret(LastRow(nat).population + annual_delta * yrs)

-----------------------------------------------------------------------------
(* Regional delta tab *)

\* frame[frame.year == y].set_index(region)[population]
PopByRegion(frame, y) ==
  LET rows == WhereYear(frame, y)
  IN [i \in 1..Len(rows) |-> [region |-> rows[i].region, v |-> rows[i].population]]

IndexOf(series) == [i \in 1..Len(series) |-> series[i].region]

SeqToSet(s) == {s[i] : i \in 1..Len(s)}

Lookup(series, r) == (CHOOSE i \in 1..Len(series) : series[i].region = r)

\* The index of latest - base: the common index when both are the same, else
\* the sorted union of the two.
UnionIndex(a, b) ==
  IF IndexOf(a) = IndexOf(b) THEN IndexOf(a)
  ELSE SelectSeq(RegionOrder, LAMBDA r : r \in SeqToSet(IndexOf(a)) \cup SeqToSet(IndexOf(b)))

\* latest - base: aligned on the union of the indexes, NaN where a side lacks
\* the label.
SubAligned(a, b) ==
  LET idx == UnionIndex(a, b)
  IN [i \in 1..Len(idx) |->
        [region |-> idx[i],
         d |-> IF idx[i] \in SeqToSet(IndexOf(a)) /\ idx[i] \in SeqToSet(IndexOf(b))
               THEN IntNum(a[Lookup(a, idx[i])].v - b[Lookup(b, idx[i])].v)
               ELSE NaN]]

\* sort_values(ascending=False): NaN last.  Equal values are kept in index
\* order (what the sort does on short arrays); no property below reads the
\* order of equal values.
SortDeltaDesc(series) ==
  LET nums == SelectSeq(series, LAMBDA e : e.d # NaN)
      nans == SelectSeq(series, LAMBDA e : e.d = NaN)
  IN Undecorate(SortByKey([i \in 1..Len(nums) |->
                   [key |-> -AsInt(nums[i].d), val |-> nums[i]]])) \o nans

RegionalDelta(frame) ==
  LET latest_year == MaxOf(YearsOf(frame))
      base_year   == latest_year - Lookback
      base        == PopByRegion(frame, base_year)
      latest      == PopByRegion(frame, latest_year)
      diff        == SubAligned(latest, base)
  IN IF NationalCode \notin SeqToSet(IndexOf(diff)) THEN Raise("KeyError")
     ELSE LET d == SortDeltaDesc(SelectSeq(diff, LAMBDA e : e.region # NationalCode))
          IN [st |-> "ok", v |-> d,
              top |-> IndexOf(HeadN(d, HeadTail)),
              bottom |-> IndexOf(TailN(d, HeadTail))]

-----------------------------------------------------------------------------
(* Top delta records tab *)

\* groupby(region)[population].diff() on the frame sorted by region, year.
WithDiff(sorted) ==
  [i \in 1..Len(sorted) |->
     [region |-> sorted[i].region, year |-> sorted[i].year,
      population |-> sorted[i].population, births |-> sorted[i].births,
      deaths |-> sorted[i].deaths, region_en |-> sorted[i].region_en,
      diff |-> IF i > 1 /\ sorted[i - 1].region = sorted[i].region
               THEN IntNum(sorted[i].population - sorted[i - 1].population)
               ELSE NaN]]

DiffFrame(frame) == WhereNotRegion(WithDiff(SortByRegionYear(frame)), NationalCode)

RankDesc(rows) ==
  Undecorate(SortByKey([i \in 1..Len(rows) |->
                          [key |-> -AsInt(rows[i].diff), val |-> rows[i]]]))

\* DataFrame.nlargest(n, "diff"), keep="first": the rows with a diff ranked
\* descending, equal diffs in frame order; the rows whose diff is NaN follow
\* them and fill the result up to n rows (pandas SelectNSeries.compute).
nlargest(n, frame) ==
  LET dropped   == SelectSeq(frame, LAMBDA r : r.diff # NaN)
      nan_index == SelectSeq(frame, LAMBDA r : r.diff = NaN)
  IN IF n <= 0 THEN << >> ELSE HeadN(RankDesc(dropped) \o nan_index, n)

-----------------------------------------------------------------------------
(* Heatmap / Area tab *)

LabelsOf(frame) == {frame[i].region_en : i \in 1..Len(frame)}

CellPops(frame, lab, y) ==
  LET rows == SelectSeq(frame, LAMBDA r : r.region_en = lab /\ r.year = y)
  IN [i \in 1..Len(rows) |-> rows[i].population]

\* Faulty variant: pivot_table(..., fill_value=0).
PivotMeanFillZero(frame, lab, y) ==
  LET pops == CellPops(frame, lab, y)
  IN IF pops = << >> THEN IntNum(0) ELSE IntNum(SumSeq(pops) \div Len(pops))

\* One cell of pivot_table(aggfunc=mean): NaN when the pair has no row.  The
\* mean is exact because a pair has at most one row.
PivotMean(frame, lab, y) ==
  LET pops == CellPops(frame, lab, y)
  IN IF pops = << >> THEN NaN ELSE IntNum(SumSeq(pops) \div Len(pops))

PivotSum(frame, lab, y) ==
  LET pops == CellPops(frame, lab, y)
  IN IF pops = << >> THEN NaN ELSE IntNum(SumSeq(pops))

\* pivot_table(index=region_en, columns=year, values=population)
\*   .loc[index != "National"]
HeatmapPivot(frame) ==
  [lab \in LabelsOf(frame) \ {"National"} |->
     [y \in YearsOf(frame) |-> PivotMean(frame, lab, y)]]

\* df[region != national].pivot_table(index=year, columns=region_en,
\*                                    values=population, aggfunc="sum")
AreaPivot(frame) ==
  LET sub == WhereNotRegion(frame, NationalCode)
  IN [y \in YearsOf(sub) |-> [lab \in LabelsOf(sub) |-> PivotSum(sub, lab, y)]]

-----------------------------------------------------------------------------
(* Input tables *)

RawRow(region, year, p, b, d) ==
  [region |-> region, year |-> year, population |-> p, births |-> b, deaths |-> d]

\* Two regions over three years, every cell absent (-1) or 0..MaxPop, and the
\* national rows of no year, of one middle year or of every year, given in
\* descending year order.
GridRegions == << "seoul", "busan" >>

GridYears == << 2017, 2020, 2021 >>

GridCell(i) == << GridRegions[((i - 1) \div Len(GridYears)) + 1],
                  GridYears[((i - 1) % Len(GridYears)) + 1] >>

GridSize == Len(GridRegions) * Len(GridYears)

NationalRowsDesc(years) ==
  LET all == [i \in 1..Len(GridYears) |->
                LET y == GridYears[Len(GridYears) + 1 - i]
                IN RawRow(NationalCode, y, FormatInt(y - 1000),
                          FormatInt(5), FormatInt(2))]
  IN SelectSeq(all, LAMBDA r : r.year \in years)

GridTable(f, years) ==
  LET all == [i \in 1..GridSize |->
                RawRow(GridCell(i)[1], GridCell(i)[2],
                       IF f[i] < 0 THEN << >> ELSE FormatInt(f[i]),
                       FormatInt(1), FormatInt(1))]
      present == SelectSeq([i \in 1..GridSize |-> [i |-> i, row |-> all[i]]],
                           LAMBDA e : f[e.i] >= 0)
  IN [i \in 1..Len(present) |-> present[i].row] \o NationalRowsDesc(years)

NationalYearSets == { {}, {2020}, SeqToSet(GridYears) }

GridTables ==
  {GridTable(f, years) : f \in [1..GridSize -> -1..MaxPop],
                         years \in NationalYearSets}

\* Six regions and the national code at the two comparison years; the first
\* region may lack its base-year row (missing = 1).
SixRegions == << "seoul", "busan", "daegu", "incheon", "gwangju", "daejeon" >>

SixTable(g, missing) ==
  LET base == SelectSeq(
                [i \in 1..Len(SixRegions) |->
                   RawRow(SixRegions[i], 2017, FormatInt(MaxPop), FormatInt(1), FormatInt(1))],
                LAMBDA r : missing = 0 \/ r.region # SixRegions[missing])
      late == [i \in 1..Len(SixRegions) |->
                 RawRow(SixRegions[i], 2021, FormatInt(g[i] + i), FormatInt(1), FormatInt(1))]
  IN << RawRow(NationalCode, 2017, FormatInt(40), FormatInt(5), FormatInt(2)) >>
       \o base \o late
       \o << RawRow(NationalCode, 2021, FormatInt(44), FormatInt(5), FormatInt(2)) >>

SixTables ==
  {SixTable(g, m) : g \in [1..Len(SixRegions) -> 0..MaxPop], m \in {0, 1}}

\* Raw tokens: empty, the placeholder, other text, numbers with and without a
\* sign or a fraction.
RawTokens ==
  { << >>, << "-" >>, << "x" >>, << "0" >>, << "7" >>, << "-", "3" >>,
    << "1", "2" >>, << "2", ".", "9" >>, << "-", "0", ".", "5" >>, << "1", "-" >> }

DirtyTable(a, b, c) ==
  << RawRow(SejongCode, 2021, a, b, c),
     RawRow("seoul", 2021, b, c, a),
     RawRow(NationalCode, 2021, c, a, b) >>

DirtyTables == {DirtyTable(a, b, c) : a \in RawTokens, b \in RawTokens, c \in RawTokens}

\* The tables of the documented examples: the national series 2019..2021 and
\* the regions with populations 100, 90, 150 and 50, 80.
ExampleTable ==
  << RawRow(NationalCode, 2021, FormatInt(1006), FormatInt(25), FormatInt(25)),
     RawRow("seoul", 2019, FormatInt(100), FormatInt(1), FormatInt(1)),
     RawRow(NationalCode, 2019, FormatInt(1000), FormatInt(30), FormatInt(20)),
     RawRow("seoul", 2021, FormatInt(150), FormatInt(1), FormatInt(1)),
     RawRow("busan", 2020, FormatInt(50), FormatInt(1), FormatInt(1)),
     RawRow("seoul", 2020, FormatInt(90), FormatInt(1), FormatInt(1)),
     RawRow(NationalCode, 2020, FormatInt(1006), FormatInt(28), FormatInt(22)),
     RawRow("busan", 2021, FormatInt(80), FormatInt(1), FormatInt(1)) >>

Tables == GridTables \cup SixTables \cup DirtyTables \cup {ExampleTable}

-----------------------------------------------------------------------------
(* The page: upload, load_population_df, then the tabs in order *)

Init ==
  /\ pc = "upload"
  /\ raw \in Tables
  /\ df = << >>
  /\ pass = 1
  /\ first = << >>
  /\ nat_df = << >>
  /\ pop2035 = Unset
  /\ delta = Unset
  /\ top100 = << >>
  /\ pivot = << >>
  /\ nat_area = << >>

\* df = pd.read_csv(file_obj)
ReadCsv ==
  /\ pc = "upload"
  /\ df' = ReadCsvFrame(raw)
  /\ pc' = "read"
  /\ UNCHANGED <<raw, pass, first, nat_df, pop2035, delta, top100, pivot, nat_area>>

\* Step 1: the placeholder of the sejong rows becomes 0.
ReplaceSejong ==
  /\ pc = "read"
  /\ df' = [i \in 1..Len(df) |-> ReplaceSejongRow(df[i])]
  /\ pc' = "replaced"
  /\ UNCHANGED <<raw, pass, first, nat_df, pop2035, delta, top100, pivot, nat_area>>

\* Step 2: to_numeric, fillna(0), astype(int).
CoerceNumeric ==
  /\ pc = "replaced"
  /\ df' = [i \in 1..Len(df) |-> CoerceRow(df[i])]
  /\ pc' = "numeric"
  /\ UNCHANGED <<raw, pass, first, nat_df, pop2035, delta, top100, pivot, nat_area>>

\* Step 3: the region_en column; load_population_df returns.
AddRegionEn ==
  /\ pc = "numeric"
  /\ df' = [i \in 1..Len(df) |-> AddRegionEnRow(df[i])]
  /\ pc' = "loaded"
  /\ UNCHANGED <<raw, pass, first, nat_df, pop2035, delta, top100, pivot, nat_area>>

\* Tab 2: the national rows sorted by year, and their forecast.  An exception
\* ends the run of the page.
NationalTrend ==
  /\ pc = "loaded"
  /\ nat_df' = SortByYear(WhereRegion(df, NationalCode))
  /\ pop2035' = predict_pop_2035(nat_df')
  /\ pc' = IF pop2035'.st = "raise" THEN "error" ELSE "delta"
  /\ UNCHANGED <<raw, df, pass, first, delta, top100, pivot, nat_area>>

\* Tab 3
RegionalDeltaTab ==
  /\ pc = "delta"
  /\ delta' = RegionalDelta(df)
  /\ pc' = IF delta'.st = "raise" THEN "error" ELSE "top"
  /\ UNCHANGED <<raw, df, pass, first, nat_df, pop2035, top100, pivot, nat_area>>

\* Tab 4
TopDeltaTab ==
  /\ pc = "top"
  /\ top100' = nlargest(TopN, DiffFrame(df))
  /\ pc' = "heatmap"
  /\ UNCHANGED <<raw, df, pass, first, nat_df, pop2035, delta, pivot, nat_area>>

\* Tab 5
HeatmapTab ==
  /\ pc = "heatmap"
  /\ pivot' = HeatmapPivot(df)
  /\ nat_area' = AreaPivot(df)
  /\ pc' = "done"
  /\ UNCHANGED <<raw, df, pass, first, nat_df, pop2035, delta, top100>>

Next ==
  \/ ReadCsv
  \/ ReplaceSejong
  \/ CoerceNumeric
  \/ AddRegionEn
  \/ NationalTrend
  \/ RegionalDeltaTab
  \/ TopDeltaTab
  \/ HeatmapTab

Spec == Init /\ [][Next]_vars

-----------------------------------------------------------------------------
(* Re-ingesting a cleaned frame: the frame written as CSV text is uploaded   *)
(* and loaded again.  The region_en column of the text is overwritten by     *)
(* step 3 of the second pass, so the text keeps the five input columns.      *)

ToCsv(frame) ==
  [i \in 1..Len(frame) |->
     RawRow(frame[i].region, frame[i].year, FormatInt(frame[i].population),
            FormatInt(frame[i].births), FormatInt(frame[i].deaths))]

Reingest ==
  /\ pc = "loaded"
  /\ pass = 1
  /\ first' = df
  /\ raw' = ToCsv(df)
  /\ df' = << >>
  /\ pass' = 2
  /\ pc' = "upload"
  /\ UNCHANGED <<nat_df, pop2035, delta, top100, pivot, nat_area>>

NextReingest ==
  \/ ReadCsv
  \/ ReplaceSejong
  \/ CoerceNumeric
  \/ AddRegionEn
  \/ Reingest

SpecReingest == Init /\ [][NextReingest]_vars

-----------------------------------------------------------------------------
(* predict_pop_2035 called on a national frame given in any row order *)

NatYears == << 2019, 2020, 2021 >>

NatRow(y, p, b, d) ==
  [region |-> NationalCode, year |-> y, population |-> p, births |-> b,
   deaths |-> d, region_en |-> "National"]

NatRows ==
  {NatRow(y, 1000 + 7 * (y - 2019), b, d) :
     y \in SeqToSet(NatYears), b \in 0..MaxBirths, d \in 0..MaxDeaths}
  \cup {NatRow(2019, 1000, 30, 20), NatRow(2020, 1006, 28, 22),
        NatRow(2021, 1006, 25, 25)}

NatFrames ==
  UNION {{s \in [1..n -> NatRows] :
            \A i, j \in 1..n : i # j => s[i].year # s[j].year} : n \in 0..MaxNat}

InitForecast ==
  /\ pc = "call"
  /\ nat_df \in NatFrames
  /\ raw = << >>
  /\ df = << >>
  /\ pass = 1
  /\ first = << >>
  /\ pop2035 = Unset
  /\ delta = Unset
  /\ top100 = << >>
  /\ pivot = << >>
  /\ nat_area = << >>

CallPredict ==
  /\ pc = "call"
  /\ pop2035' = predict_pop_2035(nat_df)
  /\ pc' = "returned"
  /\ UNCHANGED <<raw, df, pass, first, nat_df, delta, top100, pivot, nat_area>>

NextForecast == CallPredict

SpecForecast == InitForecast /\ [][NextForecast]_vars

-----------------------------------------------------------------------------
(* Properties *)

\* load_population_df has returned (the frame is never changed afterwards).
Cleaned == pc \in {"numeric", "loaded", "delta", "top", "heatmap", "done", "error"}

Rows == 1..Len(df)

\* C1 as stated: after cleaning, every population, births and deaths value is
\* an integer >= 0, whatever the raw cell held (a negative number included).
C1_AllNonNegative ==
  Cleaned =>
     \A i \in Rows : \A c \in NumCols : df[i][c] >= 0

\* C1 amended: after cleaning, a cell that was empty or not a number is 0, a
\* cell that held a number is that number truncated toward zero (so it is
\* negative exactly when the raw number was -1 or less), and a cell whose raw
\* token does not start with a minus sign is >= 0.
C1_CleanedValues ==
  (Cleaned /\ pass = 1) =>
     \A i \in Rows : \A c \in NumCols :
        LET tok == raw[i][c]
            v   == df[i][c]
        IN /\ ParseNumber(tok) = NaN => v = 0
           /\ ParseNumber(tok) # NaN =>
                /\ v = (IF tok[1] = "-" THEN -1 ELSE 1) * ParseNumber(tok).whole
                /\ (v < 0) = (tok[1] = "-" /\ ParseNumber(tok).whole >= 1)
           /\ (tok = << >> \/ tok[1] # "-") => v >= 0

C1_Witness ==
  /\ pc = "loaded"
  /\ \E i \in Rows : \E c \in NumCols : raw[i][c] = << "-", "3" >> /\ df[i][c] = -3
  /\ \E i \in Rows : \E c \in NumCols : raw[i][c] = << "x" >> /\ df[i][c] = 0
  /\ \E i \in Rows : \E c \in NumCols : raw[i][c] = << "2", ".", "9" >> /\ df[i][c] = 2

\* C6: the placeholder "-" in a numeric field of a sejong row is 0 in the
\* cleaned frame, and the substitution step leaves every row of every other
\* region exactly as read (a "-" there is still the string "-" after the
\* step; only the numeric coercion turns it into 0).
C6_SejongOnly ==
  /\ [][pc = "read" =>
          /\ Len(df') = Len(df)
          /\ \A i \in Rows : df[i].region # SejongCode => df'[i] = df[i]
          /\ \A i \in Rows : \A c \in NumCols :
                (df[i].region = SejongCode /\ df[i][c] = Str(<< "-" >>))
                   => df'[i][c] = IntNum(0)]_vars
  /\ []((Cleaned /\ pass = 1) =>
          \A i \in Rows : \A c \in NumCols :
             (raw[i].region = SejongCode /\ raw[i][c] = << "-" >>) => df[i][c] = 0)

C6_Witness ==
  /\ pc = "replaced"
  /\ \E i, j \in Rows : \E c, e \in NumCols :
        /\ raw[i].region = SejongCode /\ raw[i][c] = << "-" >> /\ df[i][c] = IntNum(0)
        /\ raw[j].region # SejongCode /\ raw[j][e] = << "-" >> /\ df[j][e] = Str(<< "-" >>)

\* C7: loading the CSV text of a cleaned frame gives the same frame again:
\* the same region, year, population, births, deaths and label in every row.
C7_Idempotent == (pc = "loaded" /\ pass = 2) => df = first

C7_Witness ==
  /\ pc = "loaded"
  /\ pass = 2
  /\ df = first
  /\ \E i \in Rows : df[i].population < 0 /\ raw[i].population = FormatInt(df[i].population)
  /\ \E i \in Rows : df[i].region = SejongCode /\ df[i].births = 0

\* C5: the region-by-year matrix has no row for the national label; a cell of
\* a (region, year) pair without a record is undefined (NaN, not 0); the cell
\* of a pair with a record is that record's population; and every
\* non-national record has its cell.
C5_Matrix ==
  pc = "done" =>
     /\ "National" \notin DOMAIN pivot
     /\ \A lab \in DOMAIN pivot : \A y \in DOMAIN pivot[lab] :
           LET recs == {i \in Rows : df[i].region_en = lab /\ df[i].year = y}
           IN /\ recs = {} => pivot[lab][y] = NaN
              /\ \A i \in recs : pivot[lab][y] = IntNum(df[i].population)
     /\ \A i \in Rows : df[i].region # NationalCode =>
           /\ df[i].region_en \in DOMAIN pivot
           /\ df[i].year \in DOMAIN pivot[df[i].region_en]

C5_Witness ==
  /\ pc = "done"
  /\ \E i \in Rows : df[i].region = NationalCode
  /\ \E lab \in DOMAIN pivot : \E y \in DOMAIN pivot[lab] : pivot[lab][y] = NaN
  /\ \E lab \in DOMAIN pivot : \E y \in DOMAIN pivot[lab] : pivot[lab][y] = IntNum(0)
  /\ \E lab \in DOMAIN pivot : \E y \in DOMAIN pivot[lab] : pivot[lab][y] = IntNum(1)

\* The forecast as documented: population of the latest year plus the
\* truncated mean of births - deaths over the three latest years, times the
\* years to the target; it reads the frame as a set of records.
ForecastOf(nat) ==
  LET maxYear == MaxOf(YearsOf(nat))
      atMax   == CHOOSE i \in 1..Len(nat) : nat[i].year = maxYear
      latest3 == {i \in 1..Len(nat) :
                    Cardinality({j \in 1..Len(nat) : nat[j].year > nat[i].year}) < 3}
      total   == SumSeq(Undecorate(SortByKey(
                    [i \in 1..Len(nat) |->
                       [key |-> i,
                        val |-> IF i \in latest3 THEN nat[i].births - nat[i].deaths ELSE 0]])))
      mean    == IF total >= 0 THEN total \div 3 ELSE -((-total) \div 3)
  IN nat[atMax].population + mean * (TargetYear - maxYear)

\* C2: for national records given in any order, the forecast is
\* population_at_maxYear + annualDelta * (2035 - maxYear); 1076 for the
\* documented example.
C2_OrderIndependent ==
  (pc = "returned" /\ Len(nat_df) >= 3) =>
     /\ pop2035 = Ret(ForecastOf(nat_df))
     /\ (SeqToSet(nat_df) = {NatRow(2019, 1000, 30, 20), NatRow(2020, 1006, 28, 22),
                             NatRow(2021, 1006, 25, 25)}) => pop2035 = Ret(1076)

\* C8: with fewer than 3 national records the forecast fails and returns no
\* value.
C8_InsufficientHistory ==
  (pc = "returned" /\ Len(nat_df) < 3) => pop2035.st = "raise"

HasRecord(r, y) == \E i \in Rows : df[i].region = r /\ df[i].year = y

PopAt(r, y) == df[CHOOSE i \in Rows : df[i].region = r /\ df[i].year = y].population

EndYear == MaxOf(YearsOf(df))

\* C9: when a comparison year (endYear or endYear - 4) has no record at all,
\* the regional delta fails: no ranked sequence is produced.
C9_MissingYear ==
  (delta # Unset /\ (EndYear - Lookback) \notin YearsOf(df)) => delta.st = "raise"

\* C10: the ranked sequence is an inner join: every entry is a region with a
\* record in both years and its delta is population(endYear) -
\* population(endYear - 4); so no region with one year only is in top or
\* bottom.
C10_InnerJoin ==
  delta.st = "ok" =>
     /\ \A i \in 1..Len(delta.v) :
           LET r == delta.v[i].region
           IN /\ HasRecord(r, EndYear) /\ HasRecord(r, EndYear - Lookback)
              /\ delta.v[i].d = IntNum(PopAt(r, EndYear) - PopAt(r, EndYear - Lookback))
     /\ \A r \in SeqToSet(delta.top) \cup SeqToSet(delta.bottom) :
           HasRecord(r, EndYear) /\ HasRecord(r, EndYear - Lookback)

\* C4: the ranked sequence has no entry for the national code and is sorted
\* descending by delta; top and bottom are its first and last 3 entries, and
\* with 6 or more regions they share no region.
C4_Ranked ==
  delta.st = "ok" =>
     /\ \A i \in 1..Len(delta.v) : delta.v[i].region # NationalCode
     /\ \A i, j \in 1..Len(delta.v) : i < j =>
           /\ delta.v[i].d # NaN /\ delta.v[j].d # NaN
           /\ AsInt(delta.v[i].d) >= AsInt(delta.v[j].d)
     /\ delta.top = IndexOf(SubSeq(delta.v, 1, Min2(3, Len(delta.v))))
     /\ delta.bottom = IndexOf(SubSeq(delta.v, Len(delta.v) - Min2(3, Len(delta.v)) + 1,
                                      Len(delta.v)))
     /\ Len(delta.v) >= 6 => SeqToSet(delta.top) \cap SeqToSet(delta.bottom) = {}

\* The year-over-year candidates: for every non-national region and every
\* year of it but its first, the change from the region's previous year.
Candidates ==
  {[region |-> df[i].region, year |-> df[i].year,
    diff |-> df[i].population
               - PopAt(df[i].region,
                       MaxOf({df[j].year : j \in {j \in Rows :
                                 df[j].region = df[i].region /\ df[j].year < df[i].year}}))] :
     i \in {i \in Rows : /\ df[i].region # NationalCode
                         /\ \E j \in Rows : df[j].region = df[i].region
                                            /\ df[j].year < df[i].year}}

IsTopK(res, k) ==
  /\ Len(res) = Min2(k, Cardinality(Candidates))
  /\ \A i \in 1..Len(res) :
        /\ res[i].diff # NaN
        /\ [region |-> res[i].region, year |-> res[i].year, diff |-> AsInt(res[i].diff)]
              \in Candidates
  /\ \A i, j \in 1..Len(res) : i < j =>
        /\ AsInt(res[i].diff) >= AsInt(res[j].diff)
        /\ <<res[i].region, res[i].year>> # <<res[j].region, res[j].year>>
  /\ \A c \in Candidates :
        (\A i \in 1..Len(res) : <<res[i].region, res[i].year>> # <<c.region, c.year>>)
           => \A i \in 1..Len(res) : AsInt(res[i].diff) >= c.diff

\* C3: the extraction returns the k candidates with the largest signed diff in
\* descending order, the first year of a region giving no candidate, and all
\* the candidates when there are fewer than k.
C3_TopK ==
  pc \in {"heatmap", "done"} =>
     /\ IsTopK(top100, TopN)
     /\ \A k \in 1..MaxK : IsTopK(nlargest(k, DiffFrame(df)), k)

====
